---------------------------- MODULE Spec2Model ----------------------------
(***************************************************************************)
(* Model of homework.py: the fitness-tracker module that builds a          *)
(* Training variant from a sensor package, computes distance, mean speed   *)
(* and spent calories, and prints a one-line report.                       *)
(*                                                                         *)
(* Numbers.  The program computes in Python floats.  The model computes    *)
(* in exact non-negative rationals [n, d] kept in lowest terms, i.e. it    *)
(* abstracts the relative rounding error (2^-53) of each float operation.  *)
(* All numerators and denominators stay below 2^31 for the inputs chosen   *)
(* below; TLC stops with an overflow error otherwise.                      *)
(*                                                                         *)
(* Text.  A string is a sequence of tokens.  The literal segments of the   *)
(* report template and the class name are one token each; a formatted      *)
(* number is a sequence of one-character tokens.  The template literals    *)
(* are Cyrillic in the source and are transliterated here.                 *)
(***************************************************************************)
EXTENDS Integers, Sequences, FiniteSets, TLC

VARIABLES packages, idx, pc, training, infos, ncalls, result, trace,
          output, error

vars == <<packages, idx, pc, training, infos, ncalls, result, trace,
          output, error>>

---------------------------------------------------------------------------
(* Bounds of the model *)

\* longest batch of packages handed to the main loop
MaxBatch == 3
\* direct calls of get_distance / get_mean_speed / get_spent_calories a
\* client makes on one instance besides the report
MaxCalls == 2
\* direct calls of show_training_info a client makes on one instance
MaxShows == 2

---------------------------------------------------------------------------
(* Exact rational arithmetic standing for float arithmetic *)

RECURSIVE GCD(_, _)
GCD(a, b) == IF b = 0 THEN a ELSE GCD(b, a % b)

\* the rational n/d in lowest terms (n >= 0, d > 0)
R(n, d) == LET g == GCD(n, d) IN [n |-> n \div g, d |-> d \div g]

\* an int literal of the source
I(n) == [n |-> n, d |-> 1]

IsZero(a) == a.n = 0

\* float multiplication a * b
RMul(a, b) ==
    LET g1 == GCD(a.n, b.d)
        g2 == GCD(b.n, a.d)
    IN  [n |-> (a.n \div g1) * (b.n \div g2),
         d |-> (a.d \div g2) * (b.d \div g1)]

\* float division a / b, b # 0 (b = 0 raises ZeroDivisionError, see Raises)
RDiv(a, b) == RMul(a, [n |-> b.d, d |-> b.n])

\* float addition a + b
RAdd(a, b) ==
    LET g == GCD(a.d, b.d)
    IN  R(a.n * (b.d \div g) + b.n * (a.d \div g), (a.d \div g) * b.d)

RECURSIVE Pow10(_)
Pow10(k) == IF k = 0 THEN 1 ELSE 10 * Pow10(k - 1)

\* long division: the first k decimals of rem/d (rem < d), as the pair
\* <<the k digits read as a number, the remainder left>>
RECURSIVE Decimals(_, _, _)
Decimals(rem, d, k) ==
    IF k = 0 THEN <<0, rem>>
    ELSE LET q    == (rem * 10) \div d
             rest == Decimals((rem * 10) % d, d, k - 1)
         IN  <<q * Pow10(k - 1) + rest[1], rest[2]>>

\* the integer nearest to a * 10^k, ties to even: the rounding of both
\* round(x, k) and format(x, '.kf') on the exact value of x
RoundScaled(a, k) ==
    LET dec   == Decimals(a.n % a.d, a.d, k)
        floor == (a.n \div a.d) * Pow10(k) + dec[1]
        rem   == dec[2]
    IN  IF 2 * rem > a.d \/ (2 * rem = a.d /\ floor % 2 = 1)
        THEN floor + 1 ELSE floor

\* round(x, k)
Round(a, k) == R(RoundScaled(a, k), Pow10(k))

---------------------------------------------------------------------------
(* Class constants *)

M_IN_KM == 1000
H_IN_M == 60
CALORIES_MEAN_SPEED_MULTIPLIER == 18
CALORIES_MEAN_SPEED_SHIFT == R(179, 100)
MULTIPLIER == R(35, 1000)
SQUARE_AVG == R(29, 1000)
\* the km/h to m/s factor left unrounded
KM_IN_MS_Exact == R(1000, 3600)

KM_IN_MS == Round(R(1000, 3600), 3)
M_IN_SM == 100
SWIMMING_SPEED_OFFSET == R(11, 10)
SWIMMING_SPEED_MULTIPLIER == 2

\* LEN_STEP without the override of Swimming
LEN_STEP_Base(cls) == R(65, 100)

\* LEN_STEP as seen from an instance of class cls: Swimming overrides it
LEN_STEP(cls) == IF cls = "Swimming" THEN R(138, 100) ELSE R(65, 100)

---------------------------------------------------------------------------
(* Training and its subclasses *)

NoTraining == [cls |-> "None"]

\* Training.__init__
TrainingInit(cls, data) ==
    [cls |-> cls, action |-> data[1], duration |-> data[2],
     weight |-> data[3]]

\* SportsWalking.__init__
SportsWalkingInit(data) ==
    TrainingInit("SportsWalking", data) @@ [height |-> data[4]]

\* Swimming.__init__ with the two pool arguments stored crosswise
SwimmingInitSwapped(data) ==
    TrainingInit("Swimming", data)
        @@ [length_pool |-> data[5], count_pool |-> data[4]]

\* Swimming.__init__
SwimmingInit(data) ==
    TrainingInit("Swimming", data)
        @@ [length_pool |-> data[4], count_pool |-> data[5]]

\* number of positional arguments the constructor of cls takes
Arity(cls) ==
    CASE cls = "Running"       -> 3
      [] cls = "SportsWalking" -> 4
      [] cls = "Swimming"      -> 5

\* cls(*data), for Len(data) = Arity(cls)
Construct(cls, data) ==
    CASE cls = "Running"       -> TrainingInit("Running", data)
      [] cls = "SportsWalking" -> SportsWalkingInit(data)
      [] cls = "Swimming"      -> SwimmingInit(data)

\* Training.get_distance
get_distance(t) ==
    RDiv(RMul(t.action, LEN_STEP(t.cls)), I(M_IN_KM))

\* get_mean_speed raises ZeroDivisionError
MeanSpeedRaises(t) == IsZero(t.duration)

\* get_mean_speed without the override of Swimming
get_mean_speed_base(t) == RDiv(get_distance(t), t.duration)

\* Training.get_mean_speed, overridden by Swimming.get_mean_speed
get_mean_speed(t) ==
    IF t.cls = "Swimming"
    THEN RDiv(RDiv(RMul(t.length_pool, t.count_pool), I(M_IN_KM)),
              t.duration)
    ELSE RDiv(get_distance(t), t.duration)

\* get_spent_calories raises ZeroDivisionError
SpentCaloriesRaises(t) ==
    \/ MeanSpeedRaises(t)
    \/ t.cls = "SportsWalking" /\ IsZero(RDiv(t.height, I(M_IN_SM)))

\* Running.get_spent_calories without the hours-to-minutes factor
RunningCaloriesInHours(t) ==
    RMul(RDiv(RMul(RAdd(RMul(I(CALORIES_MEAN_SPEED_MULTIPLIER),
                             get_mean_speed(t)),
                        CALORIES_MEAN_SPEED_SHIFT),
                   t.weight),
              I(M_IN_KM)),
         t.duration)

\* Running.get_spent_calories
RunningCalories(t) ==
    RMul(RDiv(RMul(RAdd(RMul(I(CALORIES_MEAN_SPEED_MULTIPLIER),
                             get_mean_speed(t)),
                        CALORIES_MEAN_SPEED_SHIFT),
                   t.weight),
              I(M_IN_KM)),
         RMul(t.duration, I(H_IN_M)))

SportsWalkingCalories(t) ==
    LET duration_minutes == RMul(t.duration, I(H_IN_M))
        avg_speed_mc     == RMul(get_mean_speed(t), KM_IN_MS)
        heigt_meters     == RDiv(t.height, I(M_IN_SM))
    IN  RMul(RAdd(RMul(MULTIPLIER, t.weight),
                  RMul(RMul(RDiv(RMul(avg_speed_mc, avg_speed_mc),
                                 heigt_meters),
                            SQUARE_AVG),
                       t.weight)),
             duration_minutes)

SwimmingCalories(t) ==
    RMul(RMul(RMul(RAdd(get_mean_speed(t), SWIMMING_SPEED_OFFSET),
                   I(SWIMMING_SPEED_MULTIPLIER)),
              t.weight),
         t.duration)

\* get_spent_calories of the three subclasses
get_spent_calories(t) ==
    CASE t.cls = "Running"       -> RunningCalories(t)
      [] t.cls = "SportsWalking" -> SportsWalkingCalories(t)
      [] t.cls = "Swimming"      -> SwimmingCalories(t)

\* Training.show_training_info, when no computation raises
show_training_info(t) ==
    [training_type |-> t.cls,
     duration      |-> t.duration,
     distance      |-> get_distance(t),
     speed         |-> get_mean_speed(t),
     calories      |-> get_spent_calories(t)]

---------------------------------------------------------------------------
(* Calls entered during a computation: <<method, call depth>> in the      *)
(* order of entry.  A method that raises does so at its last division, so *)
(* it has entered all its nested calls by then.                           *)

Call(fn, depth) == [fn |-> fn, depth |-> depth]

\* get_distance calls nothing
TraceDistance(t, depth) == <<Call("get_distance", depth)>>

\* Training.get_mean_speed calls get_distance, Swimming's override does not
TraceMeanSpeed(t, depth) ==
    <<Call("get_mean_speed", depth)>>
        \o (IF t.cls = "Swimming" THEN <<>>
            ELSE TraceDistance(t, depth + 1))

\* get_spent_calories reusing a mean speed computed earlier
TraceSpentCaloriesCached(t, depth) == <<Call("get_spent_calories", depth)>>

\* each get_spent_calories calls get_mean_speed once
TraceSpentCalories(t, depth) ==
    <<Call("get_spent_calories", depth)>> \o TraceMeanSpeed(t, depth + 1)

\* show_training_info evaluates the constructor arguments left to right;
\* a raise in get_mean_speed skips get_spent_calories
TraceShow(t) ==
    TraceDistance(t, 1) \o TraceMeanSpeed(t, 1)
        \o (IF MeanSpeedRaises(t) THEN <<>> ELSE TraceSpentCalories(t, 1))

---------------------------------------------------------------------------
(* InfoMessage.get_message *)

Digit(n) == <<"0", "1", "2", "3", "4", "5", "6", "7", "8", "9">>[n + 1]

\* str(n) of a non-negative int, one token per character
RECURSIVE DecStr(_)
DecStr(n) ==
    IF n < 10 THEN <<Digit(n)>>
    ELSE DecStr(n \div 10) \o <<Digit(n % 10)>>

\* the last k digits of n, zero padded
RECURSIVE Padded(_, _)
Padded(n, k) ==
    IF k = 0 THEN <<>>
    ELSE Padded(n \div 10, k - 1) \o <<Digit(n % 10)>>

\* format(x, '.3f') cutting the value off after the third decimal
Format3fTruncated(a) ==
    LET k == (a.n \div a.d) * 1000 + Decimals(a.n % a.d, a.d, 3)[1]
    IN  DecStr(k \div 1000) \o <<".">> \o Padded(k % 1000, 3)

\* format(x, '.3f') of a non-negative x
Format3f(a) ==
    LET k == RoundScaled(a, 3)
    IN  DecStr(k \div 1000) \o <<".">> \o Padded(k % 1000, 3)

\* the literal segments of InfoMessage.message
MessageLiterals ==
    <<"Tip trenirovki: ", "; Dlitel'nost': ", " ch.; Distantsiya: ",
      " km; Sr. skorost': ", " km/ch; Potracheno kkal: ", ".">>

\* InfoMessage.get_message: message.format(**asdict(self))
get_message(info) ==
    <<MessageLiterals[1], info.training_type, MessageLiterals[2]>>
        \o Format3f(info.duration) \o <<MessageLiterals[3]>>
        \o Format3f(info.distance) \o <<MessageLiterals[4]>>
        \o Format3f(info.speed) \o <<MessageLiterals[5]>>
        \o Format3f(info.calories) \o <<MessageLiterals[6]>>

---------------------------------------------------------------------------
(* read_package *)

acceptable_types ==
    [SWM |-> "Swimming", RUN |-> "Running", WLK |-> "SportsWalking"]

NoError == [kind |-> "None", msg |-> ""]

\* raise TypeError('Acceptable_types: Incorrect Value.')
IncorrectValueError ==
    [kind |-> "TypeError", msg |-> "Acceptable_types: Incorrect Value."]

\* the TypeError Python raises when cls(*data) gets too few or too many
\* positional arguments
ArgumentCountError ==
    [kind |-> "TypeError", msg |-> "__init__() positional arguments"]

\* the ZeroDivisionError of a division by a zero duration or height
ZeroDivisionError ==
    [kind |-> "ZeroDivisionError", msg |-> "division by zero"]

\* read_package falling back to Running for a code it does not know
read_package_fallback(workout_type, data) ==
    LET cls == IF workout_type \in DOMAIN acceptable_types
               THEN acceptable_types[workout_type] ELSE "Running"
    IN  IF Len(data) = Arity(cls)
        THEN [raised |-> NoError, value |-> Construct(cls, data)]
        ELSE [raised |-> ArgumentCountError, value |-> NoTraining]

\* read_package(workout_type, data): the instance returned or the
\* exception raised
read_package(workout_type, data) ==
    IF workout_type \in DOMAIN acceptable_types
    THEN IF Len(data) = Arity(acceptable_types[workout_type])
         THEN [raised |-> NoError,
               value  |-> Construct(acceptable_types[workout_type], data)]
         ELSE [raised |-> ArgumentCountError, value |-> NoTraining]
    ELSE [raised |-> IncorrectValueError, value |-> NoTraining]

---------------------------------------------------------------------------
(* Inputs *)

Package(workout_type, data) == [workout_type |-> workout_type, data |-> data]

Codes == {"SWM", "RUN", "WLK", "XYZ"}

Actions   == {I(20000), I(40000)}
Durations == {I(0), R(1, 2), I(1), I(2)}
Weights   == {I(75), I(80)}
Fourths   == {I(0), I(100), I(180)}
Fifths    == {I(40)}

\* argument lists of 3, 4 and 5 readings
DataLists ==
    LET L5 == {<<a, d, w, x, y>> : a \in Actions, d \in Durations,
                                   w \in Weights, x \in Fourths, y \in Fifths}
    IN  L5 \cup {SubSeq(l, 1, 4) : l \in L5} \cup {SubSeq(l, 1, 3) : l \in L5}

\* every code with every argument list
AllPackages == {Package(c, l) : c \in Codes, l \in DataLists}

\* the packages of the __main__ block; the walking one is
\* ('WLK', [3000, 2.512, 75.8, 180.1]) in the source and carries here
\* readings whose calories fit the 32-bit rationals
SwimPackage == Package("SWM", <<I(720), I(1), I(80), I(25), I(40)>>)
RunPackage  == Package("RUN", <<I(15000), I(1), I(75)>>)
WalkPackage == Package("WLK", <<I(20000), I(2), I(80), I(180)>>)

\* the packages batches are made of: those of __main__, an unknown code
\* and a zero duration
BatchPool ==
    {SwimPackage, RunPackage, WalkPackage,
     Package("XYZ", <<I(720), I(1), I(80)>>),
     Package("RUN", <<I(15000), I(0), I(75)>>)}

RECURSIVE SeqsUpTo(_, _)
SeqsUpTo(S, n) ==
    IF n = 0 THEN {<<>>}
    ELSE LET shorter == SeqsUpTo(S, n - 1)
         IN  shorter \cup {Append(q, x) : q \in shorter, x \in S}

Batches == SeqsUpTo(BatchPool, MaxBatch) \cup {<<p>> : p \in AllPackages}

---------------------------------------------------------------------------
(* The program *)

NoResult == [fn |-> "None", raised |-> NoError]

Returned(fn) == [fn |-> fn, raised |-> NoError]

Raised(fn, e) == [fn |-> fn, raised |-> e]

Init ==
    /\ packages \in Batches
    /\ idx = 1
    /\ pc = IF packages = <<>> THEN "done" ELSE "read"
    /\ training = NoTraining
    /\ infos = <<>>
    /\ ncalls = 0
    /\ result = NoResult
    /\ trace = <<>>
    /\ output = <<>>
    /\ error = NoError

\* the loop swallowing the exception of read_package and going on with the
\* next package
ReadPackageSkipping ==
    /\ pc = "read"
    /\ LET p == packages[idx]
           r == read_package(p.workout_type, p.data)
       IN  IF r.raised = NoError
           THEN /\ training' = r.value
                /\ pc' = "ready"
                /\ idx' = idx
           ELSE /\ training' = training
                /\ pc' = IF idx + 1 > Len(packages) THEN "done" ELSE "read"
                /\ idx' = idx + 1
    /\ infos' = <<>>
    /\ ncalls' = 0
    /\ result' = NoResult
    /\ trace' = <<>>
    /\ UNCHANGED <<packages, output, error>>

\* for workout_type, data in packages: training = read_package(...)
ReadPackage ==
    /\ pc = "read"
    /\ LET p == packages[idx]
           r == read_package(p.workout_type, p.data)
       IN  IF r.raised = NoError
           THEN /\ training' = r.value
                /\ pc' = "ready"
                /\ error' = error
           ELSE /\ training' = training
                /\ pc' = "crashed"
                /\ error' = r.raised
    /\ infos' = <<>>
    /\ ncalls' = 0
    /\ result' = NoResult
    /\ trace' = <<>>
    /\ UNCHANGED <<packages, idx, output>>

\* an uncaught exception of a method call ends the run
Crash(fn, tr) ==
    /\ pc' = "crashed"
    /\ error' = ZeroDivisionError
    /\ result' = Raised(fn, ZeroDivisionError)
    /\ trace' = tr

\* main(training): print(training.show_training_info().get_message()),
\* then the loop moves to the next package
Main ==
    /\ pc = "ready"
    /\ IF SpentCaloriesRaises(training)
       THEN /\ Crash("main", TraceShow(training))
            /\ UNCHANGED <<idx, output>>
       ELSE /\ output' =
                  Append(output, get_message(show_training_info(training)))
            /\ idx' = idx + 1
            /\ pc' = IF idx + 1 > Len(packages) THEN "done" ELSE "read"
            /\ result' = Returned("main")
            /\ trace' = TraceShow(training)
            /\ error' = error
    /\ UNCHANGED <<packages, training, infos, ncalls>>

\* a client calls training.get_distance()
CallGetDistance ==
    /\ pc = "ready"
    /\ ncalls < MaxCalls
    /\ ncalls' = ncalls + 1
    /\ result' = Returned("get_distance") @@ [value |-> get_distance(training)]
    /\ trace' = TraceDistance(training, 1)
    /\ UNCHANGED <<packages, idx, pc, training, infos, output, error>>

\* a client calls training.get_mean_speed()
CallGetMeanSpeed ==
    /\ pc = "ready"
    /\ ncalls < MaxCalls
    /\ ncalls' = ncalls + 1
    /\ IF MeanSpeedRaises(training)
       THEN Crash("get_mean_speed", TraceMeanSpeed(training, 1))
       ELSE /\ result' = Returned("get_mean_speed")
                            @@ [value |-> get_mean_speed(training)]
            /\ trace' = TraceMeanSpeed(training, 1)
            /\ UNCHANGED <<pc, error>>
    /\ UNCHANGED <<packages, idx, training, infos, output>>

\* get_spent_calories converting the stored duration to minutes in place
CallGetSpentCaloriesInPlace ==
    /\ pc = "ready"
    /\ ncalls < MaxCalls
    /\ ncalls' = ncalls + 1
    /\ training' = [training EXCEPT !.duration = RMul(@, I(H_IN_M))]
    /\ IF SpentCaloriesRaises(training)
       THEN Crash("get_spent_calories", TraceSpentCalories(training, 1))
       ELSE /\ result' = Returned("get_spent_calories")
                            @@ [value |-> get_spent_calories(training)]
            /\ trace' = TraceSpentCalories(training, 1)
            /\ UNCHANGED <<pc, error>>
    /\ UNCHANGED <<packages, idx, infos, output>>

\* a client calls training.get_spent_calories()
CallGetSpentCalories ==
    /\ pc = "ready"
    /\ ncalls < MaxCalls
    /\ ncalls' = ncalls + 1
    /\ IF SpentCaloriesRaises(training)
       THEN Crash("get_spent_calories", TraceSpentCalories(training, 1))
       ELSE /\ result' = Returned("get_spent_calories")
                            @@ [value |-> get_spent_calories(training)]
            /\ trace' = TraceSpentCalories(training, 1)
            /\ UNCHANGED <<pc, error>>
    /\ UNCHANGED <<packages, idx, training, infos, output>>

\* a client calls training.show_training_info() and keeps the record
CallShowTrainingInfo ==
    /\ pc = "ready"
    /\ Len(infos) < MaxShows
    /\ IF SpentCaloriesRaises(training)
       THEN /\ Crash("show_training_info", TraceShow(training))
            /\ infos' = infos
       ELSE /\ infos' = Append(infos, show_training_info(training))
            /\ result' = Returned("show_training_info")
            /\ trace' = TraceShow(training)
            /\ UNCHANGED <<pc, error>>
    /\ UNCHANGED <<packages, idx, training, ncalls, output>>

Next ==
    \/ ReadPackage
    \/ Main
    \/ CallGetDistance
    \/ CallGetMeanSpeed
    \/ CallGetSpentCalories
    \/ CallShowTrainingInfo

Spec == Init /\ [][Next]_vars

---------------------------------------------------------------------------
(* Properties *)

\* the package the loop is at
Current == packages[idx]

\* read_package raised on the current package
ReadFailed == pc = "crashed" /\ result.fn = "None"

\* a method of the current instance returned a value
ReturnedFrom(fn) == result.fn = fn /\ result.raised = NoError

KnownCodes == {"SWM", "RUN", "WLK"}

\* the variant and the argument count the interface gives for a code
VariantOf(code) ==
    CASE code = "RUN" -> "Running"
      [] code = "WLK" -> "SportsWalking"
      [] code = "SWM" -> "Swimming"

ArgumentsOf(code) ==
    CASE code = "RUN" -> 3
      [] code = "WLK" -> 4
      [] code = "SWM" -> 5

\* C1: for a code of RUN, WLK, SWM and an argument list of the matching
\* length, read_package returns (it does not raise) an instance of the
\* matching variant whose fields are the arguments taken positionally:
\* action, duration, weight, then height (walking) or pool length and lap
\* count (swimming); nothing else is stored.
C1_FactoryBuildsVariant ==
    /\ ReadFailed =>
          ~ /\ Current.workout_type \in KnownCodes
            /\ Len(Current.data) = ArgumentsOf(Current.workout_type)
    /\ pc = "ready" =>
          LET code == Current.workout_type
              data == Current.data
          IN  /\ code \in KnownCodes
              /\ Len(data) = ArgumentsOf(code)
              /\ training.cls = VariantOf(code)
              /\ training.action = data[1]
              /\ training.duration = data[2]
              /\ training.weight = data[3]
              /\ code = "RUN" =>
                    DOMAIN training = {"cls", "action", "duration", "weight"}
              /\ code = "WLK" =>
                    /\ training.height = data[4]
                    /\ DOMAIN training =
                          {"cls", "action", "duration", "weight", "height"}
              /\ code = "SWM" =>
                    /\ training.length_pool = data[4]
                    /\ training.count_pool = data[5]
                    /\ DOMAIN training =
                          {"cls", "action", "duration", "weight",
                           "length_pool", "count_pool"}

\* C1 witness: a Swimming instance was built from five readings
C1_Witness ==
    /\ pc = "ready"
    /\ Current.workout_type = "SWM"
    /\ training.cls = "Swimming"
    /\ training.length_pool = I(100)
    /\ training.count_pool = I(40)

\* C2 as claimed: an unknown code makes read_package fail with an error
\* kind of its own, one that no other failure of read_package carries, and
\* no instance is constructed.
C2_DedicatedError ==
    ReadFailed =>
        /\ Current.workout_type \notin KnownCodes =>
              /\ error = IncorrectValueError
              /\ training = IF idx = 1 THEN NoTraining
                            ELSE read_package(packages[idx - 1].workout_type,
                                              packages[idx - 1].data).value
        /\ Current.workout_type \in KnownCodes =>
              error.kind # IncorrectValueError.kind

\* C2 amended: for an unknown code and any argument list read_package
\* raises the built-in TypeError with the message 'Acceptable_types:
\* Incorrect Value.', the run ends there and no instance is constructed
\* (the instance variable keeps what it held).
C2_UnknownCodeRaisesTypeError ==
    [][(pc = "read" /\ Current.workout_type \notin KnownCodes) =>
          /\ pc' = "crashed"
          /\ error' = IncorrectValueError
          /\ error'.kind = "TypeError"
          /\ training' = training]_vars

\* C2 witness: the second package of a batch had an unknown code
C2_Witness ==
    /\ ReadFailed
    /\ idx = 2
    /\ Current.workout_type = "XYZ"
    /\ error = IncorrectValueError
    /\ training.cls = "Swimming"

RunSample == [cls |-> "Running", action |-> I(15000), duration |-> I(1),
              weight |-> I(75)]

\* C3 as claimed: for Running built from [15000, 1, 75] the distance is
\* 9.75, the mean speed 9.75 and the calories are about 797.99 (797.99 to
\* two decimals).
C3_RunningSampleAsClaimed ==
    (pc = "ready" /\ training = RunSample) =>
        /\ ReturnedFrom("get_distance") => result.value = R(975, 100)
        /\ ReturnedFrom("get_mean_speed") => result.value = R(975, 100)
        /\ ReturnedFrom("get_spent_calories") =>
              RoundScaled(result.value, 2) = 79799

\* C3 amended: for Running built from [15000, 1, 75] the distance is 9.75,
\* the mean speed 9.75 and the calories are
\* (18 * 9.75 + 1.79) * 75 / 1000 * (1 * 60) = 797.805.
C3_RunningSample ==
    (pc = "ready" /\ training = RunSample) =>
        /\ ReturnedFrom("get_distance") => result.value = R(975, 100)
        /\ ReturnedFrom("get_mean_speed") => result.value = R(975, 100)
        /\ ReturnedFrom("get_spent_calories") =>
              result.value = R(797805, 1000)

\* C3 witness: get_spent_calories returned for the sample run
C3_Witness ==
    /\ pc = "ready"
    /\ training = RunSample
    /\ ReturnedFrom("get_spent_calories")
    /\ RoundScaled(result.value, 3) = 797805

\* the calories of a walk as section 4.4 composes them
WalkingFormula(action, duration, weight, height) ==
    LET speed == RDiv(RDiv(RMul(action, R(65, 100)), I(1000)), duration)
        m     == RMul(duration, I(60))
        s     == RMul(speed, R(278, 1000))
        h     == RDiv(height, I(100))
    IN  RMul(RAdd(RMul(R(35, 1000), weight),
                  RMul(RMul(RDiv(RMul(s, s), h), R(29, 1000)), weight)),
             m)

\* C4: for a SportsWalking instance with duration > 0 and height > 0,
\* get_spent_calories returns (0.035 * weight + (s^2 / h) * 0.029 * weight)
\* * m with m = duration * 60, s = get_mean_speed() * 0.278 (the rounded
\* constant), h = height / 100 and get_mean_speed() = action * 0.65 / 1000
\* / duration.
C4_WalkingCalories ==
    (/\ pc = "ready"
     /\ training.cls = "SportsWalking"
     /\ ~IsZero(training.duration)
     /\ ~IsZero(training.height)) =>
        /\ ~SpentCaloriesRaises(training)
        /\ get_spent_calories(training) =
              WalkingFormula(training.action, training.duration,
                             training.weight, training.height)
        /\ ReturnedFrom("get_spent_calories") =>
              result.value =
                  WalkingFormula(training.action, training.duration,
                                 training.weight, training.height)

\* C4 witness: get_spent_calories returned for a half-hour walk
C4_Witness ==
    /\ pc = "ready"
    /\ training.cls = "SportsWalking"
    /\ training.duration = R(1, 2)
    /\ training.height = I(180)
    /\ ReturnedFrom("get_spent_calories")
    /\ ~IsZero(result.value)

SwimSample == [cls |-> "Swimming", action |-> I(720), duration |-> I(1),
               weight |-> I(80), length_pool |-> I(25), count_pool |-> I(40)]

\* stroke counts to compare a swim against
OtherActions == Actions \cup {I(0), I(720)}

\* C5: for a Swimming instance with duration > 0, get_mean_speed is
\* (pool length * lap count / 1000) / duration whatever the stroke count:
\* instances that differ only in action have the same mean speed; for
\* [720, 1, 80, 25, 40] it is 1.0.
C5_SwimmingMeanSpeed ==
    (/\ pc = "ready"
     /\ training.cls = "Swimming"
     /\ ~IsZero(training.duration)) =>
        LET expected ==
                RDiv(RDiv(RMul(training.length_pool, training.count_pool),
                          I(1000)),
                     training.duration)
        IN  /\ \A a \in OtherActions :
                  get_mean_speed([training EXCEPT !.action = a]) = expected
            /\ ReturnedFrom("get_mean_speed") => result.value = expected
            /\ (training = SwimSample /\ ReturnedFrom("get_mean_speed")) =>
                  result.value = I(1)

\* C5 witness: get_mean_speed returned 1.0 for the sample swim
C5_Witness ==
    /\ pc = "ready"
    /\ training = SwimSample
    /\ ReturnedFrom("get_mean_speed")
    /\ result.value = I(1)

\* the fields of the sample line of section 6, rendered
SwimSampleLine ==
    <<MessageLiterals[1], "Swimming", MessageLiterals[2],
      "1", ".", "0", "0", "0", MessageLiterals[3],
      "0", ".", "9", "9", "4", MessageLiterals[4],
      "1", ".", "0", "0", "0", MessageLiterals[5],
      "3", "3", "6", ".", "0", "0", "0", MessageLiterals[6]>>

\* C6: the line printed for ("SWM", [720, 1, 80, 25, 40]) names the type
\* Swimming and carries duration 1.000, distance 0.994 (720 * 1.38 / 1000,
\* from the stroke count), mean speed 1.000 and calories 336.000.
C6_SwimmingSampleReport ==
    \A i \in 1..Len(output) :
        packages[i] = SwimPackage => output[i] = SwimSampleLine

\* C6 witness: the sample swim was printed as the second line of a batch
C6_Witness ==
    /\ Len(output) >= 2
    /\ packages[2] = SwimPackage
    /\ output[2] = SwimSampleLine

\* the value of a digit character
DigitValue ==
    [c \in {"0", "1", "2", "3", "4", "5", "6", "7", "8", "9"} |->
        CASE c = "0" -> 0 [] c = "1" -> 1 [] c = "2" -> 2 [] c = "3" -> 3
          [] c = "4" -> 4 [] c = "5" -> 5 [] c = "6" -> 6 [] c = "7" -> 7
          [] c = "8" -> 8 [] c = "9" -> 9]

\* the first position from i on that holds no digit
RECURSIVE DigitsEnd(_, _)
DigitsEnd(line, i) ==
    IF i <= Len(line) /\ line[i] \in DOMAIN DigitValue
    THEN DigitsEnd(line, i + 1) ELSE i

\* the number a sequence of digits denotes
RECURSIVE NumberOf(_)
NumberOf(ds) ==
    IF ds = <<>> THEN 0
    ELSE 10 * NumberOf(SubSeq(ds, 1, Len(ds) - 1)) + DigitValue[ds[Len(ds)]]

\* reads at position s a number written as an integer part without
\* leading zeros, a point and exactly three digits: its value in
\* thousandths and the position after it
ParseField(line, s) ==
    LET e == DigitsEnd(line, s)
    IN  IF /\ e > s
           /\ e + 3 <= Len(line)
           /\ line[e] = "."
           /\ DigitsEnd(line, e + 1) = e + 4
           /\ (e - s > 1 => line[s] # "0")
        THEN [ok |-> TRUE,
              k  |-> NumberOf(SubSeq(line, s, e - 1)) * 1000
                       + NumberOf(SubSeq(line, e + 1, e + 3)),
              next |-> e + 4]
        ELSE [ok |-> FALSE, k |-> 0, next |-> s]

\* k thousandths is a nearest multiple of 0.001 to v
Nearest(k, v) ==
    LET dec   == Decimals(v.n % v.d, v.d, 3)
        below == (v.n \div v.d) * 1000 + dec[1]
    IN  \/ k = below /\ 2 * dec[2] <= v.d
        \/ k = below + 1 /\ 2 * dec[2] >= v.d

\* the instance and the record behind the i-th package
InstanceOf(i) == read_package(packages[i].workout_type, packages[i].data).value

\* the four numbers of line i, read back
FieldsOf(line) ==
    LET f1 == ParseField(line, 4)
        f2 == ParseField(line, f1.next + 1)
        f3 == ParseField(line, f2.next + 1)
        f4 == ParseField(line, f3.next + 1)
    IN  <<f1, f2, f3, f4>>

\* C7: every line printed for an instance of read_package is the template
\* with the type name inserted unchanged and duration, distance, speed and
\* calories each written with exactly three digits after the point, the
\* value rounded to the nearest thousandth, whatever its magnitude and with
\* trailing zeros kept.
C7_ThreeDecimals ==
    \A i \in 1..Len(output) :
        LET line == output[i]
            info == show_training_info(InstanceOf(i))
            f    == FieldsOf(line)
        IN  /\ line[1] = "Tip trenirovki: "
            /\ line[2] = VariantOf(packages[i].workout_type)
            /\ line[3] = "; Dlitel'nost': "
            /\ f[1].ok /\ Nearest(f[1].k, info.duration)
            /\ line[f[1].next] = " ch.; Distantsiya: "
            /\ f[2].ok /\ Nearest(f[2].k, info.distance)
            /\ line[f[2].next] = " km; Sr. skorost': "
            /\ f[3].ok /\ Nearest(f[3].k, info.speed)
            /\ line[f[3].next] = " km/ch; Potracheno kkal: "
            /\ f[4].ok /\ Nearest(f[4].k, info.calories)
            /\ line[f[4].next] = "."
            /\ Len(line) = f[4].next

\* C7 witness: a printed walk of half an hour ("0.500") whose calories
\* reach four integer digits and whose distance and speed differ in width
C7_Witness ==
    \E i \in 1..Len(output) :
        LET f == FieldsOf(output[i])
        IN  /\ output[i][2] = "SportsWalking"
            /\ f[1].ok /\ f[1].k = 500
            /\ f[2].ok /\ f[2].k >= 10000
            /\ f[4].ok /\ f[4].k >= 1000000

\* the report builder returned: called by a client or by main
ShowReturned == ReturnedFrom("show_training_info") \/ ReturnedFrom("main")

\* the methods entered, in order
Entered == [i \in 1..Len(trace) |-> trace[i].fn]

\* the methods the report builder calls itself
Direct ==
    LET d == SelectSeq(trace, LAMBDA c : c.depth = 1)
    IN  [i \in 1..Len(d) |-> d[i].fn]

Count(fn) == Cardinality({i \in 1..Len(trace) : trace[i].fn = fn})

\* C8 as claimed: during one show_training_info the distance, mean-speed
\* and calorie computations are each entered exactly once, in this order,
\* nested calls included.
C8_EachComputedOnce ==
    ShowReturned =>
        Entered = <<"get_distance", "get_mean_speed", "get_spent_calories">>

\* C8 amended: during one show_training_info the report builder itself
\* calls get_distance, get_mean_speed and get_spent_calories exactly once
\* each, in this order, and get_spent_calories is entered once in all; but
\* get_spent_calories calls get_mean_speed again (entered twice in all) and
\* every get_mean_speed of Running and SportsWalking calls get_distance
\* (entered three times in all, once for Swimming).
C8_DirectCallsOnce ==
    ShowReturned =>
        /\ Direct = <<"get_distance", "get_mean_speed", "get_spent_calories">>
        /\ Count("get_spent_calories") = 1
        /\ Count("get_mean_speed") = 2
        /\ Count("get_distance") = IF training.cls = "Swimming" THEN 1 ELSE 3

\* C8 witness: a report was built for a Running instance
C8_Witness ==
    /\ ReturnedFrom("show_training_info")
    /\ training.cls = "Running"
    /\ Len(trace) = 6

\* C9: two show_training_info calls on an instance of read_package, with
\* any get_distance, get_mean_speed and get_spent_calories calls around
\* and between them, give InfoMessage records with the same contents, and
\* the instance keeps the fields it was constructed with.
C9_ReportIdempotent ==
    pc = "ready" =>
        /\ training = InstanceOf(idx)
        /\ \A i, j \in 1..Len(infos) : infos[i] = infos[j]
        /\ \A i \in 1..Len(infos) : infos[i] = show_training_info(training)

\* C9 witness: the second report was taken after two direct method calls
C9_Witness ==
    /\ pc = "ready"
    /\ Len(infos) = 2
    /\ ncalls = 2
    /\ ReturnedFrom("show_training_info")
    /\ infos[1] = infos[2]

\* C10: the packages are handled one after another in list order; line i
\* is the report of package i and is printed before package i + 1 is
\* read; an unknown code ends the run at that package, with the lines of
\* the earlier packages printed and nothing constructed or printed after.
C10_SequentialBatch ==
    /\ [](/\ pc \in {"read", "ready", "crashed"} =>
                idx <= Len(packages) /\ Len(output) = idx - 1
          /\ pc = "done" =>
                idx = Len(packages) + 1 /\ Len(output) = Len(packages)
          /\ \A i \in 1..Len(output) :
                /\ packages[i].workout_type \in KnownCodes
                /\ output[i] =
                      get_message(show_training_info(InstanceOf(i))))
    /\ [][/\ pc # "crashed"
          /\ idx' \in {idx, idx + 1}
          /\ output' # output =>
                /\ idx' = idx + 1
                /\ Len(output') = Len(output) + 1
                /\ SubSeq(output', 1, Len(output)) = output
          /\ idx' = idx + 1 => output' # output
          /\ (pc = "read" /\ Current.workout_type \notin KnownCodes) =>
                /\ pc' = "crashed"
                /\ output' = output
                /\ idx' = idx
                /\ training' = training]_vars

\* C10 witness: the second of three packages had an unknown code; one line
\* was printed and the third package, a known one, was never read
C10_Witness ==
    /\ ReadFailed
    /\ error = IncorrectValueError
    /\ Len(packages) = 3
    /\ idx = 2
    /\ Len(output) = 1
    /\ packages[3].workout_type \in KnownCodes

====
